---- MODULE Spec2Model ----
(***************************************************************************)
(* The "help" subcommand of the wasmer-js command line tool                *)
(* (packages/cli/src/commands/help.ts).                                    *)
(*                                                                         *)
(* runHelp(args) looks at args[0] and either prints the help command's own *)
(* usage block, asks the run or the version command to print its help, or  *)
(* prints "Unrecognized subcommand: <args[0]>" followed by the help        *)
(* command's usage block.                                                  *)
(*                                                                         *)
(* Text is modelled as a sequence of lines (a string with its line breaks  *)
(* split out); console.log(t) appends the lines of t to standard output.   *)
(* Every process has its own copy of the module-level command objects, its *)
(* own argument array and its own standard output.                         *)
(***************************************************************************)
EXTENDS Naturals, Sequences, FiniteSets

VARIABLES
  runCommand,      \* [Procs -> descriptor]  the imported run command
  versionCommand,  \* [Procs -> descriptor]  the imported version command
  helpCommand,     \* [Procs -> descriptor]  the command built at lines 24-41
  args,            \* [Procs -> Seq(STRING)] the array passed to runHelp
  pc,              \* [Procs -> "idle" | "running" | "returned" | "threw"]
  ip,              \* [Procs -> Nat] next statement of the running invocation
  stdout,          \* [Procs -> Seq(STRING)] lines written by the invocation
  helpCalls,       \* [Procs -> Seq(STRING)] commands whose help() was invoked
  last             \* [Procs -> record] the invocation just before this one

vars == <<runCommand, versionCommand, helpCommand, args, pc, ip, stdout,
          helpCalls, last>>

descriptors == <<runCommand, versionCommand, helpCommand>>

-----------------------------------------------------------------------------
(* Bounds and input sets *)

NumProcs == 2
Procs == 1..NumProcs
Main == 1

MaxExtra == 1

\* first positional argument: the recognised names, an unknown name, the
\* empty string and case variants
Tokens == {"help", "run", "version", "bogus", "", "Help", "RUN"}

\* arguments after the first
ExtraTokens == {"help", "bogus"}

RECURSIVE SeqsUpTo(_, _)
SeqsUpTo(S, n) ==
  IF n = 0 THEN {<<>>}
  ELSE LET shorter == SeqsUpTo(S, n - 1)
       IN  shorter \cup {Append(s, x) : s \in shorter, x \in S}

ArgLists ==
  {<<>>} \cup {<<t>> \o tail : t \in Tokens, tail \in SeqsUpTo(ExtraTokens, MaxExtra)}

\* argument lists of the concurrent runs: one per kind of output
ConcArgLists == {<<>>, <<"run">>, <<"bogus">>}

\* names tried on a sibling descriptor beyond what the tool registers: the
\* run command's own (so that both siblings carry one name) and the help
\* command's.  The tool itself keeps names unique; these widen the state
\* space for the properties that speak of such a collision.
Names == {"run", "help"}

\* names a sibling descriptor may be registered under; a registration keeps
\* the names of the tool's commands distinct
RegisteredNames == {"run", "version", "exec"}

Descriptions == {"Run a WebAssembly file", "Print the version"}

Siblings == {"runCommand", "versionCommand"}

-----------------------------------------------------------------------------
(* The command objects *)

RunCommandInit == [name |-> "run", description |-> "Run a WebAssembly file"]

VersionCommandInit == [name |-> "version", description |-> "Print the version"]

HelpCommandInit ==
  [name |-> "help", description |-> "Show the usage of the passed subcommand"]

\* faulty variant: the subcommand list is a copy taken when the module was loaded
getHelpBodyFrozen(rc, vc) ==
  << "USAGE:",
     "",
     "$ wasmer-js help [SUBCOMMAND]",
     "",
     "ARGUMENTS:",
     "",
     "[SUBCOMMAND] - The subcommand we want to see the help message for ",
     "    ",
     "    The available subcommands (other than help) are:",
     "    " \o RunCommandInit.name \o " - " \o RunCommandInit.description,
     "    " \o VersionCommandInit.name \o " - " \o VersionCommandInit.description >>

\* the help body of the help command: the template literal of lines 29-39
getHelpBody(rc, vc) ==
  << "USAGE:",
     "",
     "$ wasmer-js help [SUBCOMMAND]",
     "",
     "ARGUMENTS:",
     "",
     "[SUBCOMMAND] - The subcommand we want to see the help message for ",
     "    ",
     "    The available subcommands (other than help) are:",
     "    " \o rc.name \o " - " \o rc.description,
     "    " \o vc.name \o " - " \o vc.description >>

\* the help text a sibling command renders; its content belongs to that command
SiblingHelpText(cmd) ==
  IF cmd = "runCommand" THEN << "<help text of the run command>" >>
  ELSE << "<help text of the version command>" >>

\* Command.help(): the command prints its help text on standard output
help(cmd, rc, vc) ==
  IF cmd = "helpCommand" THEN getHelpBody(rc, vc) ELSE SiblingHelpText(cmd)

-----------------------------------------------------------------------------
(* runHelp: the statements it executes, in order *)

ConsoleLog(text) == [op |-> "log", text |-> text, cmd |-> ""]

HelpCall(cmd) == [op |-> "help", text |-> <<>>, cmd |-> cmd]

Throw == [op |-> "throw", text |-> <<>>, cmd |-> ""]

\* faulty variant: "help" is not recognised as a request for the own usage
runHelpNoHelpToken(a, rc, vc) ==
  IF Len(a) = 0 THEN << HelpCall("helpCommand") >>
  ELSE IF a[1] = rc.name THEN << HelpCall("runCommand") >>
  ELSE IF a[1] = vc.name THEN << HelpCall("versionCommand") >>
  ELSE << ConsoleLog(<< "Unrecognized subcommand: " \o a[1] >>),
          HelpCall("helpCommand") >>

\* faulty variant: the run and the version branch call each other's help
runHelpSwapped(a, rc, vc) ==
  IF Len(a) = 0 \/ a[1] = "help" THEN << HelpCall("helpCommand") >>
  ELSE IF a[1] = rc.name THEN << HelpCall("versionCommand") >>
  ELSE IF a[1] = vc.name THEN << HelpCall("runCommand") >>
  ELSE << ConsoleLog(<< "Unrecognized subcommand: " \o a[1] >>),
          HelpCall("helpCommand") >>

\* faulty variant: the name comparisons come before the check for "help"
runHelpNamesFirst(a, rc, vc) ==
  IF Len(a) > 0 /\ a[1] = rc.name THEN << HelpCall("runCommand") >>
  ELSE IF Len(a) > 0 /\ a[1] = vc.name THEN << HelpCall("versionCommand") >>
  ELSE IF Len(a) = 0 \/ a[1] = "help" THEN << HelpCall("helpCommand") >>
  ELSE << ConsoleLog(<< "Unrecognized subcommand: " \o a[1] >>),
          HelpCall("helpCommand") >>

\* faulty variant: the usage block is printed before the "Unrecognized" line
runHelpUsageFirst(a, rc, vc) ==
  IF Len(a) = 0 \/ a[1] = "help" THEN << HelpCall("helpCommand") >>
  ELSE IF a[1] = rc.name THEN << HelpCall("runCommand") >>
  ELSE IF a[1] = vc.name THEN << HelpCall("versionCommand") >>
  ELSE << HelpCall("helpCommand"),
          ConsoleLog(<< "Unrecognized subcommand: " \o a[1] >>) >>

\* faulty variant: an unrecognised subcommand is an error
runHelpThrows(a, rc, vc) ==
  IF Len(a) = 0 \/ a[1] = "help" THEN << HelpCall("helpCommand") >>
  ELSE IF a[1] = rc.name THEN << HelpCall("runCommand") >>
  ELSE IF a[1] = vc.name THEN << HelpCall("versionCommand") >>
  ELSE << Throw >>

\* faulty variant: the last argument is dispatched on instead of the first
runHelpLastArg(a, rc, vc) ==
  IF Len(a) = 0 \/ a[Len(a)] = "help" THEN << HelpCall("helpCommand") >>
  ELSE IF a[Len(a)] = rc.name THEN << HelpCall("runCommand") >>
  ELSE IF a[Len(a)] = vc.name THEN << HelpCall("versionCommand") >>
  ELSE << ConsoleLog(<< "Unrecognized subcommand: " \o a[Len(a)] >>),
          HelpCall("helpCommand") >>

\* runHelp, lines 6-22: the decision on args[0], top to bottom
runHelp(a, rc, vc) ==
  IF Len(a) = 0 \/ a[1] = "help" THEN << HelpCall("helpCommand") >>
  ELSE IF a[1] = rc.name THEN << HelpCall("runCommand") >>
  ELSE IF a[1] = vc.name THEN << HelpCall("versionCommand") >>
  ELSE << ConsoleLog(<< "Unrecognized subcommand: " \o a[1] >>),
          HelpCall("helpCommand") >>

\* the lines one statement writes
Written(stmt, rc, vc) ==
  IF stmt.op = "log" THEN stmt.text
  ELSE IF stmt.op = "help" THEN help(stmt.cmd, rc, vc)
  ELSE <<>>

RECURSIVE Render(_, _, _)
Render(stmts, rc, vc) ==
  IF stmts = <<>> \/ Head(stmts).op = "throw" THEN <<>>
  ELSE Written(Head(stmts), rc, vc) \o Render(Tail(stmts), rc, vc)

\* everything one uninterrupted invocation of runHelp writes
Output(a, rc, vc) == Render(runHelp(a, rc, vc), rc, vc)

-----------------------------------------------------------------------------
(* The state machine *)

NoLast == [valid |-> FALSE, args |-> <<>>, out |-> <<>>]

\* the shape of the state
TypeOK ==
  /\ \A p \in Procs :
       /\ runCommand[p].name \in Names \cup RegisteredNames
       /\ versionCommand[p].name \in Names \cup RegisteredNames
       /\ runCommand[p].description \in Descriptions
       /\ versionCommand[p].description \in Descriptions
       /\ helpCommand[p] = HelpCommandInit
       /\ args[p] \in ArgLists
       /\ pc[p] \in {"idle", "running", "returned", "threw"}
       /\ ip[p] \in 1..3
       /\ last[p].valid \in BOOLEAN
  /\ DOMAIN stdout = Procs
  /\ DOMAIN helpCalls = Procs

Init ==
  /\ runCommand = [p \in Procs |-> RunCommandInit]
  /\ versionCommand = [p \in Procs |-> VersionCommandInit]
  /\ helpCommand = [p \in Procs |-> HelpCommandInit]
  /\ args = [p \in Procs |-> <<>>]
  /\ pc = [p \in Procs |-> "idle"]
  /\ ip = [p \in Procs |-> 1]
  /\ stdout = [p \in Procs |-> <<>>]
  /\ helpCalls = [p \in Procs |-> <<>>]
  /\ last = [p \in Procs |-> NoLast]

\* the caller invokes runHelp(a); control is at line 7
Call(p, a) ==
  /\ pc[p] \in {"idle", "returned"}
  /\ args' = [args EXCEPT ![p] = a]
  /\ pc' = [pc EXCEPT ![p] = "running"]
  /\ ip' = [ip EXCEPT ![p] = 1]
  /\ stdout' = [stdout EXCEPT ![p] = <<>>]
  /\ helpCalls' = [helpCalls EXCEPT ![p] = <<>>]
  /\ last' = [last EXCEPT ![p] =
                IF pc[p] = "returned"
                THEN [valid |-> TRUE, args |-> args[p], out |-> stdout[p]]
                ELSE NoLast]
  /\ UNCHANGED descriptors

\* faulty variant: whatever is written goes to a buffer every process shares
StepSharedStdout(p) ==
  /\ pc[p] = "running"
  /\ LET stmts == runHelp(args[p], runCommand[p], versionCommand[p])
         stmt == stmts[ip[p]]
     IN  /\ stdout' = [q \in Procs |->
                         stdout[q] \o Written(stmt, runCommand[p], versionCommand[p])]
         /\ helpCalls' = [helpCalls EXCEPT ![p] =
                            IF stmt.op = "help" THEN Append(@, stmt.cmd) ELSE @]
         /\ pc' = [pc EXCEPT ![p] =
                     IF stmt.op = "throw" THEN "threw"
                     ELSE IF ip[p] = Len(stmts) THEN "returned" ELSE "running"]
         /\ ip' = [ip EXCEPT ![p] = @ + 1]
  /\ UNCHANGED <<descriptors, args, last>>

\* faulty variant: rendering the usage block marks the run command as shown
StepMarksShown(p) ==
  /\ pc[p] = "running"
  /\ LET stmts == runHelp(args[p], runCommand[p], versionCommand[p])
         stmt == stmts[ip[p]]
     IN  /\ stdout' = [stdout EXCEPT ![p] =
                         @ \o Written(stmt, runCommand[p], versionCommand[p])]
         /\ helpCalls' = [helpCalls EXCEPT ![p] =
                            IF stmt.op = "help" THEN Append(@, stmt.cmd) ELSE @]
         /\ pc' = [pc EXCEPT ![p] =
                     IF stmt.op = "throw" THEN "threw"
                     ELSE IF ip[p] = Len(stmts) THEN "returned" ELSE "running"]
         /\ ip' = [ip EXCEPT ![p] = @ + 1]
         /\ runCommand' = [runCommand EXCEPT ![p].description =
                             IF stmt.cmd = "helpCommand" THEN "Print the version" ELSE @]
  /\ UNCHANGED <<versionCommand, helpCommand, args, last>>

\* faulty variant: the subcommand is taken off the argument array (args.shift())
StepShiftsArgs(p) ==
  /\ pc[p] = "running"
  /\ LET stmts == runHelp(args[p], runCommand[p], versionCommand[p])
         stmt == stmts[ip[p]]
     IN  /\ stdout' = [stdout EXCEPT ![p] =
                         @ \o Written(stmt, runCommand[p], versionCommand[p])]
         /\ helpCalls' = [helpCalls EXCEPT ![p] =
                            IF stmt.op = "help" THEN Append(@, stmt.cmd) ELSE @]
         /\ pc' = [pc EXCEPT ![p] =
                     IF stmt.op = "throw" THEN "threw"
                     ELSE IF ip[p] = Len(stmts) THEN "returned" ELSE "running"]
         /\ ip' = [ip EXCEPT ![p] = @ + 1]
         /\ args' = [args EXCEPT ![p] =
                       IF ip[p] = Len(stmts) /\ Len(@) > 0 THEN Tail(@) ELSE @]
  /\ UNCHANGED <<descriptors, last>>

\* runHelp executes its next statement that writes (lines 7-21); after the
\* last one it returns
Step(p) ==
  /\ pc[p] = "running"
  /\ LET stmts == runHelp(args[p], runCommand[p], versionCommand[p])
         stmt == stmts[ip[p]]
     IN  /\ stdout' = [stdout EXCEPT ![p] =
                         @ \o Written(stmt, runCommand[p], versionCommand[p])]
         /\ helpCalls' = [helpCalls EXCEPT ![p] =
                            IF stmt.op = "help" THEN Append(@, stmt.cmd) ELSE @]
         /\ pc' = [pc EXCEPT ![p] =
                     IF stmt.op = "throw" THEN "threw"
                     ELSE IF ip[p] = Len(stmts) THEN "returned" ELSE "running"]
         /\ ip' = [ip EXCEPT ![p] = @ + 1]
  /\ UNCHANGED <<descriptors, args, last>>

\* code outside runHelp assigns a sibling descriptor's name.  No uniqueness is
\* enforced here: this is wider than what the tool's registry does, see
\* RegisterName.
SetName(p, cmd, n) ==
  /\ pc[p] \in {"idle", "returned"}
  /\ IF cmd = "runCommand"
     THEN /\ runCommand[p].name # n
          /\ runCommand' = [runCommand EXCEPT ![p].name = n]
          /\ UNCHANGED versionCommand
     ELSE /\ versionCommand[p].name # n
          /\ versionCommand' = [versionCommand EXCEPT ![p].name = n]
          /\ UNCHANGED runCommand
  /\ pc' = [pc EXCEPT ![p] = "idle"]
  /\ last' = [last EXCEPT ![p] = NoLast]
  /\ UNCHANGED <<helpCommand, args, ip, stdout, helpCalls>>

\* a sibling descriptor is registered under another name: the names of the
\* run, version and help commands stay pairwise distinct
RegisterName(p, cmd, n) ==
  /\ n # helpCommand[p].name
  /\ n # (IF cmd = "runCommand" THEN versionCommand[p].name
                                ELSE runCommand[p].name)
  /\ SetName(p, cmd, n)

\* code outside runHelp assigns a sibling descriptor's description
SetDescription(p, cmd, d) ==
  /\ pc[p] \in {"idle", "returned"}
  /\ IF cmd = "runCommand"
     THEN /\ runCommand[p].description # d
          /\ runCommand' = [runCommand EXCEPT ![p].description = d]
          /\ UNCHANGED versionCommand
     ELSE /\ versionCommand[p].description # d
          /\ versionCommand' = [versionCommand EXCEPT ![p].description = d]
          /\ UNCHANGED runCommand
  /\ pc' = [pc EXCEPT ![p] = "idle"]
  /\ last' = [last EXCEPT ![p] = NoLast]
  /\ UNCHANGED <<helpCommand, args, ip, stdout, helpCalls>>

\* one process: every argument list, descriptors that change between calls
Next ==
  \/ \E a \in ArgLists : Call(Main, a)
  \/ Step(Main)
  \/ \E cmd \in Siblings, n \in Names : SetName(Main, cmd, n)
  \/ \E cmd \in Siblings, d \in Descriptions : SetDescription(Main, cmd, d)

Spec == Init /\ [][Next]_vars

\* one process whose commands keep unique names, as the tool registers them
NextRegistered ==
  \/ \E a \in ArgLists : Call(Main, a)
  \/ Step(Main)
  \/ \E cmd \in Siblings, n \in RegisteredNames : RegisterName(Main, cmd, n)
  \/ \E cmd \in Siblings, d \in Descriptions : SetDescription(Main, cmd, d)

SpecRegistered == Init /\ [][NextRegistered]_vars

\* several processes, each with its own command objects, invoking runHelp at
\* the same time
NextConc ==
  \/ \E p \in Procs, a \in ConcArgLists : Call(p, a)
  \/ \E p \in Procs : Step(p)
  \/ \E p \in Procs, d \in Descriptions : SetDescription(p, "runCommand", d)

SpecConc == Init /\ [][NextConc]_vars

-----------------------------------------------------------------------------
(* Properties *)

Returned(p) == pc[p] = "returned"

Desc(cmd, p) == IF cmd = "runCommand" THEN runCommand[p] ELSE versionCommand[p]

IsPrefix(s, t) == Len(s) <= Len(t) /\ SubSeq(t, 1, Len(s)) = s

\* the usage block as the specification's section 6 prints it
Section6Usage(rc, vc) ==
  << "USAGE:",
     "",
     "$ wasmer-js help [SUBCOMMAND]",
     "",
     "ARGUMENTS:",
     "",
     "[SUBCOMMAND] - The subcommand we want to see the help message for ",
     "    ",
     "    The available subcommands (other than help) are:",
     "    " \o rc.name \o " - " \o rc.description,
     "    " \o vc.name \o " - " \o vc.description >>

\* C1: with no argument, or with "help" as the first argument, runHelp writes
\* exactly the help command's usage block and invokes no sibling's help.
C1_OwnUsage ==
  \A p \in Procs :
    (Returned(p) /\ (Len(args[p]) = 0 \/ args[p][1] = "help"))
      => /\ stdout[p] = Section6Usage(runCommand[p], versionCommand[p])
         /\ helpCalls[p] = << "helpCommand" >>

C1_Witness ==
  \E p \in Procs : Returned(p) /\ Len(args[p]) = 2 /\ args[p][1] = "help"

\* the names of the tool's commands are pairwise distinct
UniqueNames(p) ==
  /\ runCommand[p].name # versionCommand[p].name
  /\ runCommand[p].name # helpCommand[p].name
  /\ versionCommand[p].name # helpCommand[p].name

\* C2: when args[0] is the registered name of sibling d and is not "help",
\* runHelp invokes d's help exactly once and writes d's help text and nothing
\* else (the commands' names being unique, as the tool registers them).
C2_SiblingHelp ==
  \A p \in Procs :
    /\ UniqueNames(p)
    /\ \A d \in Siblings :
         (Returned(p) /\ Len(args[p]) > 0 /\ args[p][1] = Desc(d, p).name
            /\ args[p][1] # "help")
           => /\ helpCalls[p] = << d >>
              /\ stdout[p] = SiblingHelpText(d)

\* the version descriptor, re-registered under the name the run descriptor
\* had at first, is asked for by that name
C2_Witness ==
  \E p \in Procs :
    /\ Returned(p) /\ Len(args[p]) > 0
    /\ args[p][1] = versionCommand[p].name
    /\ versionCommand[p].name = "run"
    /\ runCommand[p].name = "exec"

\* C3: a first argument that is neither "help" nor a sibling's name gives the
\* line "Unrecognized subcommand: <v>" and then the usage block, nothing else.
C3_UnrecognizedThenUsage ==
  \A p \in Procs :
    (Returned(p) /\ Len(args[p]) > 0
       /\ args[p][1] \notin {"help", runCommand[p].name, versionCommand[p].name})
      => stdout[p] = << "Unrecognized subcommand: " \o args[p][1] >>
                       \o Section6Usage(runCommand[p], versionCommand[p])

C3_Witness ==
  \E p \in Procs :
    /\ Returned(p) /\ Len(args[p]) > 0 /\ args[p][1] = "RUN"
    /\ runCommand[p].name = "run"

\* C4: runHelp never ends in an error; when it has returned, some command's
\* usage text has been written.
C4_NeverThrows ==
  \A p \in Procs :
    /\ pc[p] # "threw"
    /\ Returned(p) =>
         \E cmd \in Siblings \cup {"helpCommand"} :
           /\ helpCalls[p] = << cmd >>
           /\ Len(stdout[p]) >= Len(help(cmd, runCommand[p], versionCommand[p]))
           /\ SubSeq(stdout[p],
                     Len(stdout[p]) - Len(help(cmd, runCommand[p], versionCommand[p])) + 1,
                     Len(stdout[p]))
                = help(cmd, runCommand[p], versionCommand[p])

C4_Witness ==
  \E p \in Procs :
    /\ Returned(p) /\ Len(args[p]) = 2
    /\ args[p][1] \notin {"help", runCommand[p].name, versionCommand[p].name}

\* C5: a usage block that runHelp has printed lists the siblings' names and
\* descriptions as they are at that invocation, whatever they were before.
C5_LiveUsage ==
  \A p \in Procs :
    (Returned(p) /\ helpCalls[p] = << "helpCommand" >>)
      => /\ Len(stdout[p]) >= 2
         /\ stdout[p][Len(stdout[p]) - 1]
              = "    " \o runCommand[p].name \o " - " \o runCommand[p].description
         /\ stdout[p][Len(stdout[p])]
              = "    " \o versionCommand[p].name \o " - "
                  \o versionCommand[p].description

C5_Witness ==
  \E p \in Procs :
    /\ Returned(p) /\ helpCalls[p] = << "helpCommand" >>
    /\ runCommand[p].name # RunCommandInit.name
    /\ runCommand[p].description # RunCommandInit.description
    /\ versionCommand[p].name # VersionCommandInit.name
    /\ versionCommand[p].description # VersionCommandInit.description

\* C6: an invocation that directly follows one with the same arguments, with
\* no descriptor changed in between, writes the same output.
C6_Idempotent ==
  \A p \in Procs :
    (Returned(p) /\ last[p].valid /\ last[p].args = args[p])
      => stdout[p] = last[p].out

C6_Witness ==
  \E p \in Procs :
    /\ Returned(p) /\ last[p].valid /\ last[p].args = args[p]
    /\ Len(args[p]) > 0 /\ args[p][1] = "bogus"

\* C7: under every interleaving of invocations in several processes, what an
\* invocation has written is what it writes when it runs alone.
C7_Concurrent ==
  \A p \in Procs :
    /\ pc[p] = "running" =>
         IsPrefix(stdout[p], Output(args[p], runCommand[p], versionCommand[p]))
    /\ Returned(p) =>
         stdout[p] = Output(args[p], runCommand[p], versionCommand[p])

C7_Witness ==
  \E p, q \in Procs :
    /\ p # q
    /\ pc[p] = "running" /\ ip[p] = 2
    /\ pc[q] = "running" /\ ip[q] = 2
    /\ runCommand[p] # runCommand[q]

\* C8: no step of runHelp changes the name or description of the run, version
\* or help descriptor, or the argument array.
C8_Frame ==
  [][\A p \in Procs :
       pc[p] = "running"
         => /\ args'[p] = args[p]
            /\ runCommand'[p] = runCommand[p]
            /\ versionCommand'[p] = versionCommand[p]
            /\ helpCommand'[p] = helpCommand[p]]_vars

C8_Witness ==
  \E p \in Procs :
    /\ Returned(p) /\ Len(args[p]) = 2 /\ Len(helpCalls[p]) = 1
    /\ runCommand[p] # RunCommandInit

\* C9: exactly one branch fires; "help" wins over a sibling registered under
\* the name "help", and the run descriptor wins over a version descriptor
\* registered under the same name.
C9_BranchOrder ==
  \A p \in Procs :
    Returned(p) =>
      /\ Len(helpCalls[p]) = 1
      /\ (Len(args[p]) > 0 /\ args[p][1] = "help"
            /\ "help" \in {runCommand[p].name, versionCommand[p].name})
           => /\ helpCalls[p] = << "helpCommand" >>
              /\ stdout[p] = Section6Usage(runCommand[p], versionCommand[p])
      /\ (Len(args[p]) > 0 /\ args[p][1] # "help"
            /\ args[p][1] = runCommand[p].name
            /\ runCommand[p].name = versionCommand[p].name)
           => /\ helpCalls[p] = << "runCommand" >>
              /\ stdout[p] = SiblingHelpText("runCommand")

C9_Witness ==
  \E p \in Procs :
    /\ Returned(p) /\ Len(args[p]) > 0 /\ args[p][1] # "help"
    /\ args[p][1] = runCommand[p].name
    /\ runCommand[p].name = versionCommand[p].name

\* C10: the output for a non-empty argument list is the output for the list
\* of its first element alone.
C10_FirstArgOnly ==
  \A p \in Procs :
    (Returned(p) /\ Len(args[p]) > 0)
      => stdout[p] = Output(<< args[p][1] >>, runCommand[p], versionCommand[p])

C10_Witness ==
  \E p \in Procs :
    /\ Returned(p) /\ Len(args[p]) = 2 /\ args[p][2] # args[p][1]
    /\ args[p][1] = "run" /\ runCommand[p].name = "run"

====
